---- MODULE Spec2Model ----
(***************************************************************************)
(* FolderToJSON-AI (src/main.py): a recursive directory walk that asks a   *)
(* local inference service for one description per entry and writes the    *)
(* resulting tree to folder_structure.json.                                *)
(*                                                                         *)
(* Two specifications are given.  SpecDescribe exercises                   *)
(* describe_with_curl alone over every outcome of the steps it performs.   *)
(* Spec runs main(): the existence check, scan_folder's recursion (an      *)
(* explicit stack of frames) and the final write.  The filesystem and the  *)
(* inference service are the environment: what os.listdir, open() and      *)
(* requests.post yield is chosen when the program performs the call.       *)
(***************************************************************************)
EXTENDS Integers, Sequences, FiniteSets, TLC

\* ---------------------------------------------------------------- bounds
MaxFileLen == 2     \* longest image file content, in bytes
MaxEntries == 2     \* most entries one os.listdir call yields
MaxDepth   == 2     \* deepest folder below the root that is listed
MaxNodes   == 3     \* most entries below the root in one run
MaxNameLen == 4     \* longest entry name whose dispatch is examined alone

\* -------------------------------------------------- Python result values
\* A Python call either returns a value or raises an exception.
Ok(v)    == [raised |-> FALSE, value |-> v, exc |-> ""]
Raise(e) == [raised |-> TRUE, value |-> <<>>, exc |-> e]

\* ------------------------------------------------------------- file names
\* A name is a sequence of characters.
Upper == <<"P", "N", "G", "J", "E", "I", "F", "B", "T", "X">>
Lower == <<"p", "n", "g", "j", "e", "i", "f", "b", "t", "x">>

\* str.lower() on one character.
LowerChar(c) ==
  IF \E i \in 1..Len(Upper) : Upper[i] = c
  THEN Lower[CHOOSE i \in 1..Len(Upper) : Upper[i] = c]
  ELSE c

\* str.lower()
StrLower(s) == [i \in 1..Len(s) |-> LowerChar(s[i])]

\* str.endswith(suffix) for one suffix
EndsWith(s, suf) ==
  /\ Len(suf) <= Len(s)
  /\ SubSeq(s, Len(s) - Len(suf) + 1, Len(s)) = suf

\* the suffix tuple of line 89
ImageSuffixes ==
  { <<"p", "n", "g">>, <<"j", "p", "g">>, <<"j", "p", "e", "g">>,
    <<"g", "i", "f">> }

\* the suffix test without the lower() call
IsImageName_CaseSensitive(item) ==
  \E suf \in ImageSuffixes : EndsWith(item, suf)

\* item.lower().endswith(("png", "jpg", "jpeg", "gif"))
IsImageName(item) ==
  \E suf \in ImageSuffixes : EndsWith(StrLower(item), suf)

\* ----------------------------------------------------------------- base64
B64Alphabet ==
  <<"A","B","C","D","E","F","G","H","I","J","K","L","M","N","O","P",
    "Q","R","S","T","U","V","W","X","Y","Z","a","b","c","d","e","f",
    "g","h","i","j","k","l","m","n","o","p","q","r","s","t","u","v",
    "w","x","y","z","0","1","2","3","4","5","6","7","8","9","+","/">>

B64Pad == "="

\* base64.b64encode(bytes).decode("utf-8"): three bytes become four
\* characters, a short last group is padded with "=".
RECURSIVE B64Encode(_)
B64Encode(b) ==
  IF Len(b) = 0 THEN <<>>
  ELSE IF Len(b) = 1 THEN
    << B64Alphabet[(b[1] \div 4) + 1],
       B64Alphabet[((b[1] % 4) * 16) + 1],
       B64Pad, B64Pad >>
  ELSE IF Len(b) = 2 THEN
    << B64Alphabet[(b[1] \div 4) + 1],
       B64Alphabet[((b[1] % 4) * 16 + (b[2] \div 16)) + 1],
       B64Alphabet[((b[2] % 16) * 4) + 1],
       B64Pad >>
  ELSE
    << B64Alphabet[(b[1] \div 4) + 1],
       B64Alphabet[((b[1] % 4) * 16 + (b[2] \div 16)) + 1],
       B64Alphabet[((b[2] % 16) * 4 + (b[3] \div 64)) + 1],
       B64Alphabet[(b[3] % 64) + 1] >>
    \o B64Encode(SubSeq(b, 4, Len(b)))

\* ------------------------------------------------ environment: image file
\* What open(image_path, "rb") and read() yield: an error, or the bytes.
ByteValues == {0, 77, 255}

FileContents == UNION { [1..n -> ByteValues] : n \in 0..MaxFileLen }

FileStates ==
  { [readable |-> FALSE, bytes |-> <<>>] }
  \cup { [readable |-> TRUE, bytes |-> b] : b \in FileContents }

\* encode_image_to_base64: None is modelled as [none |-> TRUE]; the
\* except branch prints and returns None.
encode_image_to_base64(file) ==
  IF file.readable
  THEN [none |-> FALSE, data |-> B64Encode(file.bytes), printed |-> <<>>]
  ELSE [none |-> TRUE, data |-> <<>>,
        printed |-> << "Error encoding image" >>]

\* Python truthiness of the value encode_image_to_base64 returned:
\* None and the empty string are both false.
Truthy(image_data) == ~image_data.none /\ Len(image_data.data) > 0

\* --------------------------------------------- environment: the HTTP call
\* Response bodies: the text and what json() makes of it.
BodyNotJson == [text |-> "<html>", kind |-> "invalid", keys |-> {},
                content |-> ""]
BodyArray   == [text |-> "[]", kind |-> "array", keys |-> {},
                content |-> ""]
BodyMessage == [text |-> "{message}", kind |-> "object",
                keys |-> {"message"}, content |-> ""]
BodyContent == [text |-> "{content}", kind |-> "object",
                keys |-> {"content"}, content |-> "A cat"]

Bodies == {BodyNotJson, BodyArray, BodyMessage, BodyContent}

StatusCodes == {200, 404}

NoBody == [text |-> "", kind |-> "invalid", keys |-> {}, content |-> ""]

\* Every outcome of requests.post: the call raises, or a response arrives.
TransportError == [transport |-> FALSE, status |-> 0, body |-> NoBody]

Responses ==
  { TransportError }
  \cup { [transport |-> TRUE, status |-> s, body |-> b] :
           s \in StatusCodes, b \in Bodies }

\* requests.post(url, headers=headers, json=payload)
requests_post(outcome) ==
  IF outcome.transport THEN Ok(outcome) ELSE Raise("ConnectionError")

\* response.json()
response_json(body) ==
  IF body.kind = "invalid" THEN Raise("JSONDecodeError") ELSE Ok(body)

\* <parsed>.get("content", "No description available")
json_get(parsed, default) ==
  IF parsed.kind # "object" THEN Raise("AttributeError")
  ELSE IF "content" \in parsed.keys THEN Ok(<< parsed.content >>)
  ELSE Ok(default)

\* ------------------------------------------------- descriptions (strings)
\* A description is a sequence of string pieces; a formatted message keeps
\* its literal prefix as the first piece.
ErrEncoding      == << "Error encoding the image for description." >>
NoDescription    == << "No description available" >>
ErrStatus(s, t)  == << "Error: ", ToString(s), " - ", t >>
ErrRequest_WrongPrefix(e) == << "Error: ", e >>
ErrRequest(e)    == << "Error making the request: ", e >>

\* -------------------------------------------------------- describe_with_curl
\* The payload of lines 33-54.
ImagePayload(model, data) ==
  [model |-> model, role |-> "user", content |-> << "What is in this image?" >>,
   images |-> << data >>]

TextPayload(model, text) ==
  [model |-> model, role |-> "user", content |-> << "Describe this: ", text >>,
   images |-> <<>>]

\* The body of the try block, lines 57-61.
TryPost(outcome) ==
  LET response == requests_post(outcome) IN
  IF response.raised THEN response
  ELSE IF response.value.status = 200 THEN
    LET parsed == response_json(response.value.body) IN
    IF parsed.raised THEN parsed
    ELSE json_get(parsed.value, NoDescription)
  ELSE Ok(ErrStatus(response.value.status, response.value.body.text))

\* the try block without its except branch
PostAndParse_NoExcept(outcome) == TryPost(outcome)

\* Lines 56-63: the try block and its except branch.
PostAndParse(outcome) ==
  LET r == TryPost(outcome) IN
  IF r.raised THEN Ok(ErrRequest(r.exc)) ELSE r

\* An absent argument (None) is [given |-> FALSE]; `if image_path:` is
\* false for None and for the empty string.
NoArg == [given |-> FALSE, str |-> <<>>]
Arg(s) == [given |-> TRUE, str |-> s]
ArgTruthy(a) == a.given /\ Len(a.str) > 0

\* str(text) inside the f-string of line 53: None formats as "None".
FormatArg(a) == IF a.given THEN a.str ELSE << "N", "o", "n", "e" >>

\* describe_with_curl(model, image_path, text) under one environment: the
\* state of the image file and the outcome of the POST.  The result says
\* whether an exception left the call, the value returned, the payloads
\* POSTed and the lines printed.
describe_with_curl(model, image_path, text, file, outcome) ==
  IF ArgTruthy(image_path) THEN
    LET image_data == encode_image_to_base64(file) IN
    IF Truthy(image_data) THEN
      LET r == PostAndParse(outcome) IN
      [raised |-> r.raised, value |-> r.value, exc |-> r.exc,
       posts |-> << ImagePayload(model, image_data.data) >>,
       printed |-> image_data.printed]
    ELSE
      [raised |-> FALSE, value |-> ErrEncoding, exc |-> "",
       posts |-> <<>>, printed |-> image_data.printed]
  ELSE
    LET r == PostAndParse(outcome) IN
    [raised |-> r.raised, value |-> r.value, exc |-> r.exc,
     posts |-> << TextPayload(model, FormatArg(text)) >>, printed |-> <<>>]

\* ------------------------------------------------------------ paths, nodes
\* A path is the sequence of its components.
Cwd == << <<"h">> >>

RootName == <<"r">>

\* the path typed at the prompt (relative to the working directory)
RootPath == << RootName >>

\* os.path.basename / os.path.join / os.path.abspath
basename(path) == path[Len(path)]
join(path, item) == Append(path, item)
abspath(path) == Cwd \o path

\* the model name main() passes down (line 104)
Model == "llama3.2-vision"

\* the dict of lines 74-80
FolderNode(folder_path, description) ==
  [name |-> basename(folder_path), path |-> abspath(folder_path),
   type |-> "folder", description |-> description, children |-> <<>>]

\* a leaf dict that also carries an empty children list
FileNode_WithChildren(item, item_path, description) ==
  [name |-> item, path |-> abspath(item_path), type |-> "file",
   description |-> description, children |-> <<>>]

\* the dict of lines 92-97
FileNode(item, item_path, description) ==
  [name |-> item, path |-> abspath(item_path), type |-> "file",
   description |-> description]

\* insert(0, child) in place of append(child)
AppendChild_Prepend(node, child) ==
  [node EXCEPT !.children = << child >> \o node.children]

\* result["children"].append(child)
AppendChild(node, child) ==
  [node EXCEPT !.children = Append(node.children, child)]

\* the image_path argument of line 89
ImagePathArg(item, item_path) ==
  IF IsImageName(item) THEN Arg(item_path) ELSE NoArg

\* iterating the listing from its end
CurrentItem_Reversed(items, i) == items[Len(items) + 1 - i]

\* the for loop of line 82: the item of the current iteration, and the
\* move to the next one
CurrentItem(items, i) == items[i]
NextIdx(i) == i + 1

\* the existence check left out
path_exists_Always(kind) == TRUE

\* os.path.exists(folder_path), line 106
path_exists(kind) == kind # "missing"

\* ------------------------------------------- environment: the directories
ScanNames == { <<"G", "I", "F">>, <<"t", "x", "t">> }

Entries(allowDir) ==
  { [name |-> nm, isdir |-> d] :
      nm \in ScanNames, d \in (IF allowDir THEN BOOLEAN ELSE {FALSE}) }

\* What os.listdir can yield: up to k entries, names distinct, in any order.
Listings(k, allowDir) ==
  { s \in UNION { [1..n -> Entries(allowDir)] : n \in 0..k } :
      \A i, j \in 1..Len(s) : i # j => s[i].name # s[j].name }

\* The states of an image file and the outcomes of a POST met in a scan.
ScanFiles ==
  { [readable |-> FALSE, bytes |-> <<>>],
    [readable |-> TRUE, bytes |-> <<>>],
    [readable |-> TRUE, bytes |-> <<77>>] }

ScanResponses ==
  { TransportError,
    [transport |-> TRUE, status |-> 200, body |-> BodyContent] }

\* -------------------------------------------------------------- the state
VARIABLES
  pc,          \* main(): "start", "scan", "write", "done", "crashed"
  rootKind,    \* what the typed path is: "missing", "file" or "dir"
  stack,       \* the active scan_folder calls, innermost last
  tree,        \* folder_structure once scan_folder has returned
  calls,       \* the describe_with_curl invocations, in order
  fsSeen,      \* what os.listdir yielded, per listed folder
  out,         \* the lines printed
  outputFile,  \* folder_structure.json
  dIn,         \* SpecDescribe: the arguments of the call
  dEnv,        \* SpecDescribe: the image file and the POST outcome
  dOut,        \* SpecDescribe: the result of the call
  cEntry,      \* SpecClassify: the entry the loop body is given
  cReq         \* SpecClassify: the describe_with_curl call made for it

vars == << pc, rootKind, stack, tree, calls, fsSeen, out, outputFile,
           dIn, dEnv, dOut, cEntry, cReq >>

scanVars == << pc, rootKind, stack, tree, calls, fsSeen, out, outputFile >>
descVars == << dIn, dEnv, dOut, cEntry, cReq >>

NoNode == [type |-> "none"]
NoTree == [type |-> "none"]
NoFile == [written |-> FALSE, doc |-> NoTree]
NoCall == [state |-> "idle"]

Frame(folder_path) ==
  [path |-> folder_path, phase |-> "enter", node |-> NoNode,
   items |-> <<>>, idx |-> 1]

Top == stack[Len(stack)]
SetTop(f) == [stack EXCEPT ![Len(stack)] = f]

\* entries os.listdir has yielded so far
NodesSeen ==
  LET RECURSIVE Sum(_)
      Sum(S) == IF S = {} THEN 0
                ELSE LET r == CHOOSE r \in S : TRUE
                     IN Len(r.items) + Sum(S \ {r})
  IN Sum(fsSeen)

\* a describe_with_curl invocation, begun and not yet returned
NewCall(path, image_path, text) ==
  [path |-> path, image_path |-> image_path, text |-> text,
   done |-> FALSE, value |-> <<>>, posts |-> <<>>,
   file |-> [readable |-> FALSE, bytes |-> <<>>], outcome |-> TransportError]

\* the invocation once it has returned, with what it met of the
\* environment: the file if it opened one, the outcome if it POSTed
EndCall(c, r, f, o) ==
  [c EXCEPT !.done = TRUE, !.value = r.value, !.posts = r.posts,
            !.file = IF ArgTruthy(c.image_path) THEN f ELSE @,
            !.outcome = IF r.posts # <<>> THEN o ELSE @]

\* line 78: the call scan_folder makes for the folder itself
FolderRequest(folder_path) ==
  NewCall(folder_path, NoArg, Arg(basename(folder_path)))

\* lines 83, 87-91: the call scan_folder makes for a non-directory item
FileRequest(folder_path, item) ==
  NewCall(join(folder_path, item),
          ImagePathArg(item, join(folder_path, item)), Arg(item))

LastCall == calls[Len(calls)]
SetLastCall(c) == [calls EXCEPT ![Len(calls)] = c]

ScanInit ==
  /\ pc = "start"
  /\ rootKind \in {"missing", "file", "dir"}
  /\ stack = <<>>
  /\ tree = NoTree
  /\ calls = <<>>
  /\ fsSeen = {}
  /\ out = <<>>
  /\ outputFile = NoFile

DescIdle ==
  /\ dIn = NoCall
  /\ dEnv = NoCall
  /\ dOut = NoCall
  /\ cEntry = NoCall
  /\ cReq = NoCall

Init == ScanInit /\ DescIdle

\* ------------------------------------------------------------------ main
\* lines 103-111: the prompt, the existence check, the call of scan_folder
MainStart ==
  /\ pc = "start"
  /\ IF ~path_exists(rootKind)
     THEN /\ out' = Append(out, "The specified folder does not exist.")
          /\ pc' = "done"
          /\ stack' = stack
     ELSE /\ out' = Append(out, "Scanning folder and generating descriptions...")
          /\ pc' = "scan"
          /\ stack' = << Frame(RootPath) >>
  /\ UNCHANGED << rootKind, tree, calls, fsSeen, outputFile, descVars >>

\* lines 113-117: open the output file, json.dump, the closing message;
\* open() raises when the file cannot be created.
MainWrite ==
  /\ pc = "write"
  /\ \E canWrite \in BOOLEAN :
       IF canWrite
       THEN /\ outputFile' = [written |-> TRUE, doc |-> tree]
            /\ out' = Append(out, "Folder structure saved")
            /\ pc' = "done"
       ELSE /\ pc' = "crashed"
            /\ UNCHANGED << outputFile, out >>
  /\ UNCHANGED << rootKind, stack, tree, calls, fsSeen, descVars >>

\* ----------------------------------------------------------- scan_folder
\* line 78: the folder's own describe_with_curl call is made
DescribeFolderBegin ==
  /\ pc = "scan"
  /\ Top.phase = "enter"
  /\ calls' = Append(calls, FolderRequest(Top.path))
  /\ stack' = SetTop([Top EXCEPT !.phase = "describing"])
  /\ UNCHANGED << pc, rootKind, tree, fsSeen, out, outputFile, descVars >>

\* lines 74-80: the call returns and the folder's dict is built
DescribeFolderEnd ==
  /\ pc = "scan"
  /\ Top.phase = "describing"
  /\ \E o \in ScanResponses, f \in ScanFiles :
       LET r == describe_with_curl(Model, LastCall.image_path, LastCall.text,
                                   f, o)
       IN /\ calls' = SetLastCall(EndCall(LastCall, r, f, o))
          /\ out' = out \o r.printed
          /\ IF r.raised
             THEN /\ pc' = "crashed"
                  /\ stack' = stack
             ELSE /\ pc' = pc
                  /\ stack' = SetTop([Top EXCEPT
                                        !.phase = "list",
                                        !.node = FolderNode(Top.path, r.value)])
  /\ UNCHANGED << rootKind, tree, fsSeen, outputFile, descVars >>

\* line 82: os.listdir; it raises on a path that is not a folder and on a
\* folder that cannot be read.
ListDir ==
  /\ pc = "scan"
  /\ Top.phase = "list"
  /\ \/ /\ Len(stack) = 1 => rootKind = "dir"
        /\ \E items \in Listings(IF MaxNodes - NodesSeen < MaxEntries
                                 THEN MaxNodes - NodesSeen ELSE MaxEntries,
                                 Len(stack) - 1 < MaxDepth) :
             /\ fsSeen' = fsSeen \cup { [path |-> Top.path, items |-> items] }
             /\ stack' = SetTop([Top EXCEPT !.phase = "loop",
                                            !.items = items, !.idx = 1])
        /\ pc' = pc
     \/ /\ pc' = "crashed"
        /\ UNCHANGED << stack, fsSeen >>
  /\ UNCHANGED << rootKind, tree, calls, out, outputFile, descVars >>

\* lines 83-85: the item is a folder: recurse
EnterSubfolder ==
  /\ pc = "scan"
  /\ Top.phase = "loop"
  /\ Top.idx <= Len(Top.items)
  /\ CurrentItem(Top.items, Top.idx).isdir
  /\ stack' = Append(stack, Frame(join(Top.path, CurrentItem(Top.items, Top.idx).name)))
  /\ UNCHANGED << pc, rootKind, tree, calls, fsSeen, out, outputFile,
                  descVars >>

\* lines 86-91: the item is a file: its describe_with_curl call is made
DescribeFileBegin ==
  /\ pc = "scan"
  /\ Top.phase = "loop"
  /\ Top.idx <= Len(Top.items)
  /\ ~CurrentItem(Top.items, Top.idx).isdir
  /\ calls' = Append(calls,
                     FileRequest(Top.path, CurrentItem(Top.items, Top.idx).name))
  /\ stack' = SetTop([Top EXCEPT !.phase = "file"])
  /\ UNCHANGED << pc, rootKind, tree, fsSeen, out, outputFile, descVars >>

\* lines 87-97: the call returns and the leaf dict is appended
DescribeFileEnd ==
  /\ pc = "scan"
  /\ Top.phase = "file"
  /\ \E o \in ScanResponses, f \in ScanFiles :
       LET r == describe_with_curl(Model, LastCall.image_path, LastCall.text,
                                   f, o)
           item == CurrentItem(Top.items, Top.idx).name
       IN /\ calls' = SetLastCall(EndCall(LastCall, r, f, o))
          /\ out' = out \o r.printed
          /\ IF r.raised
             THEN /\ pc' = "crashed"
                  /\ stack' = stack
             ELSE /\ pc' = pc
                  /\ stack' = SetTop([Top EXCEPT
                       !.phase = "loop",
                       !.idx = NextIdx(Top.idx),
                       !.node = AppendChild(Top.node,
                                  FileNode(item, join(Top.path, item),
                                           r.value))])
  /\ UNCHANGED << rootKind, tree, fsSeen, outputFile, descVars >>

\* line 99 and line 85 / 111: the loop is over, the dict is returned to the
\* caller, which appends it (scan_folder) or keeps it (main)
ScanReturn ==
  /\ pc = "scan"
  /\ Top.phase = "loop"
  /\ Top.idx > Len(Top.items)
  /\ IF Len(stack) = 1
     THEN /\ tree' = Top.node
          /\ stack' = <<>>
          /\ pc' = "write"
     ELSE LET parent == stack[Len(stack) - 1] IN
          /\ stack' = Append(SubSeq(stack, 1, Len(stack) - 2),
                             [parent EXCEPT
                                !.idx = NextIdx(parent.idx),
                                !.node = AppendChild(parent.node, Top.node)])
          /\ UNCHANGED << tree, pc >>
  /\ UNCHANGED << rootKind, calls, fsSeen, out, outputFile, descVars >>

Next ==
  \/ MainStart
  \/ DescribeFolderBegin
  \/ DescribeFolderEnd
  \/ ListDir
  \/ EnterSubfolder
  \/ DescribeFileBegin
  \/ DescribeFileEnd
  \/ ScanReturn
  \/ MainWrite

Spec == Init /\ [][Next]_vars

\* ------------------------------------------- describe_with_curl on its own
DescribePaths == { <<>>, << <<"c">>, <<"a", ".", "p", "n", "g">> >> }

DescribeTexts == { NoArg, Arg(<<"n", ".", "t", "x", "t">>) }

\* a caller invokes describe_with_curl(model, image_path, text)
DCall ==
  /\ dIn = NoCall
  /\ \E ip \in {NoArg} \cup { Arg(q) : q \in DescribePaths },
        t \in DescribeTexts :
       dIn' = [state |-> "called", model |-> Model, image_path |-> ip,
               text |-> t]
  /\ UNCHANGED << dEnv, dOut, cEntry, cReq, scanVars >>

\* the call runs to its end under one state of the image file and one
\* outcome of the POST
DReturn ==
  /\ dIn # NoCall
  /\ dOut = NoCall
  /\ \E f \in FileStates, o \in Responses :
       /\ dEnv' = [state |-> "met", file |-> f, outcome |-> o]
       /\ dOut' = [state |-> "returned",
                   result |-> describe_with_curl(dIn.model, dIn.image_path,
                                                 dIn.text, f, o)]
  /\ UNCHANGED << dIn, cEntry, cReq, scanVars >>

NextDescribe == DCall \/ DReturn

InitDescribe == Init /\ rootKind = "dir"

SpecDescribe == InitDescribe /\ [][NextDescribe]_vars

\* ---------------------------------- the dispatch of one entry on its own
NameChars == {"g", "i", "f", "G", "I", "j", "p", "e", "."}

EntryNames == UNION { [1..n -> NameChars] : n \in 1..MaxNameLen }

\* line 82: the loop body is given one item of a listing
CPick ==
  /\ cEntry = NoCall
  /\ \E nm \in EntryNames, d \in BOOLEAN :
       cEntry' = [state |-> "picked", folder |-> RootPath, name |-> nm,
                  isdir |-> d]
  /\ UNCHANGED << cReq, dIn, dEnv, dOut, scanVars >>

\* lines 83-91: a folder is handed to scan_folder, whose first call is the
\* one of line 78; a file gets the call of lines 87-91
CDispatch ==
  /\ cEntry # NoCall
  /\ cReq = NoCall
  /\ cReq' = [state |-> "made",
              call |-> IF cEntry.isdir
                       THEN FolderRequest(join(cEntry.folder, cEntry.name))
                       ELSE FileRequest(cEntry.folder, cEntry.name)]
  /\ UNCHANGED << cEntry, dIn, dEnv, dOut, scanVars >>

NextClassify == CPick \/ CDispatch

SpecClassify == InitDescribe /\ [][NextClassify]_vars

\* ======================================================= derived notions
\* a node and everything below it, in document order
RECURSIVE Flatten(_), FlattenFrom(_, _)
Flatten(n) ==
  IF "children" \in DOMAIN n
  THEN << n >> \o FlattenFrom(n.children, 1)
  ELSE << n >>
FlattenFrom(ch, i) ==
  IF i > Len(ch) THEN <<>> ELSE Flatten(ch[i]) \o FlattenFrom(ch, i + 1)

\* the nodes of the dicts under construction in the active calls
RECURSIVE FrameNodes(_)
FrameNodes(k) ==
  IF k = 0 THEN <<>>
  ELSE FrameNodes(k - 1)
       \o (IF stack[k].node.type = "none" THEN <<>> ELSE Flatten(stack[k].node))

\* the nodes scan_folder calls have returned so far
RECURSIVE FrameReturned(_)
FrameReturned(k) ==
  IF k = 0 THEN <<>>
  ELSE FrameReturned(k - 1)
       \o (IF stack[k].node.type = "none" THEN <<>>
           ELSE FlattenFrom(stack[k].node.children, 1))

TreeNodes == IF tree.type = "none" THEN <<>> ELSE Flatten(tree)

AllNodes == TreeNodes \o FrameNodes(Len(stack))

ReturnedNodes == TreeNodes \o FrameReturned(Len(stack))

Range(seq) == { seq[i] : i \in DOMAIN seq }

Listed(p) == \E r \in fsSeen : r.path = p
ItemsOf(p) == (CHOOSE r \in fsSeen : r.path = p).items

\* the pre-order listing of the folders and files os.listdir has shown
RECURSIVE PreOrder(_), PreOrderFrom(_, _, _)
PreOrder(p) ==
  << p >> \o (IF Listed(p) THEN PreOrderFrom(p, ItemsOf(p), 1) ELSE <<>>)
PreOrderFrom(p, items, i) ==
  IF i > Len(items) THEN <<>>
  ELSE (IF items[i].isdir THEN PreOrder(Append(p, items[i].name))
        ELSE << Append(p, items[i].name) >>)
       \o PreOrderFrom(p, items, i + 1)

CallPaths == [i \in 1..Len(calls) |-> calls[i].path]

IsPrefix(a, b) == Len(a) <= Len(b) /\ SubSeq(b, 1, Len(a)) = a

\* the call met a transport failure of its POST
TransportFailed(c) == c.done /\ c.posts # <<>> /\ ~c.outcome.transport

\* the path below the working directory has a node with this description
HasNode(p) == \E i \in DOMAIN AllNodes : AllNodes[i].path = Cwd \o p
Stored(p, d) ==
  \E i \in DOMAIN AllNodes :
    AllNodes[i].path = Cwd \o p /\ AllNodes[i].description = d

\* every entry os.listdir has shown has a node in the returned tree
TreeComplete ==
  \A r \in fsSeen : \A i \in DOMAIN r.items :
    \E k \in DOMAIN TreeNodes :
      TreeNodes[k].path = Cwd \o Append(r.path, r.items[i].name)

Returned == dOut # NoCall
Res == dOut.result

\* ================================================================ claims

\* C1: describe_with_curl never raises: whatever the arguments, the state
\* of the image file and the outcome of the POST (transport failure, a
\* non-200 status, a 200 whose body is not JSON or is JSON but not an object,
\* a 200 with or without `content`), the call returns a value and no
\* exception leaves it.
C1_DescribeNeverRaises ==
  Returned => (~Res.raised /\ Len(Res.value) > 0)

C1_Witness ==
  /\ Returned
  /\ Res.posts # <<>>
  /\ dEnv.outcome.transport
  /\ dEnv.outcome.status = 200
  /\ dEnv.outcome.body.kind = "array"

\* C2: for any existing root path, whatever happens while the entries are
\* described, main never aborts, it ends with every entry in the tree and
\* the tree written to folder_structure.json, and only a missing root path
\* leaves no output file.
C2_ExistingRootAlwaysWritten ==
  /\ rootKind # "missing" => pc # "crashed"
  /\ (pc = "done" /\ rootKind # "missing") =>
       (outputFile.written /\ tree.type = "folder" /\ TreeComplete)
  /\ (pc = "done" /\ ~outputFile.written) => rootKind = "missing"

\* C3: a transport failure of a describe_with_curl call leaves a
\* description starting with "Error making the request:" in that node and
\* never stops the scan: no describe step aborts the run, and the tree
\* scan_folder returns has a node for every entry listed, whichever calls
\* failed.
C3_TransportFailureKeepsScanning ==
  /\ \A i \in DOMAIN calls :
       TransportFailed(calls[i]) =>
         /\ calls[i].value[1] = "Error making the request: "
         /\ Stored(calls[i].path, calls[i].value)
  /\ pc = "crashed" => (stack = <<>> \/ Top.phase = "list")
  /\ tree.type # "none" => TreeComplete

C3_Witness ==
  /\ pc = "done"
  /\ outputFile.written
  /\ Len(calls) = 4
  /\ Len(calls[3].path) = 3
  /\ TransportFailed(calls[3])
  /\ TransportFailed(calls[1])
  /\ ~TransportFailed(calls[4])

\* C4: every folder node scan_folder has returned has type "folder" and one
\* child per entry os.listdir yielded for that folder, in listing order
\* (same count, same names, a folder for a directory and a file otherwise),
\* and so has every folder node below it.
C4_ChildrenMatchListing ==
  /\ tree.type \in {"none", "folder"}
  /\ \A k \in DOMAIN ReturnedNodes :
       LET n == ReturnedNodes[k] IN
       n.type = "folder" =>
         \E r \in fsSeen :
           /\ Cwd \o r.path = n.path
           /\ Len(n.children) = Len(r.items)
           /\ \A i \in DOMAIN r.items :
                /\ n.children[i].name = r.items[i].name
                /\ n.children[i].path = n.path \o << r.items[i].name >>
                /\ (n.children[i].type = "folder") <=> r.items[i].isdir
                /\ (n.children[i].type = "file") <=> ~r.items[i].isdir

\* root/a/b with no files
C4_Witness ==
  /\ pc = "done"
  /\ tree.type = "folder"
  /\ Len(tree.children) = 1
  /\ tree.children[1].type = "folder"
  /\ Len(tree.children[1].children) = 1
  /\ tree.children[1].children[1].type = "folder"
  /\ tree.children[1].children[1].children = <<>>

\* C5: at every point of the traversal every node has the `children` key
\* exactly when its type is "folder"; the node of a non-directory entry is a
\* "file" without the key, the node of a directory entry is a "folder" with
\* a children sequence.
C5_ChildrenIffFolder ==
  \A k \in DOMAIN AllNodes :
    LET n == AllNodes[k] IN
    /\ n.type \in {"file", "folder"}
    /\ ("children" \in DOMAIN n) <=> (n.type = "folder")
    /\ \A r \in fsSeen : \A i \in DOMAIN r.items :
         (Cwd \o Append(r.path, r.items[i].name) = n.path) =>
           IF r.items[i].isdir
           THEN n.type = "folder" /\ "children" \in DOMAIN n
           ELSE n.type = "file" /\ "children" \notin DOMAIN n

C5_Witness ==
  /\ pc = "scan"
  /\ Len(stack) = 1
  /\ Top.phase = "loop"
  /\ Len(Top.node.children) = 2
  /\ Top.node.children[1].type = "file"
  /\ Top.node.children[2].type = "folder"
  /\ Top.node.children[2].children = <<>>

\* C6: a non-directory entry is described in image mode, its full path the
\* image source, exactly when its lowercased name ends in png, jpg, jpeg or
\* gif, and in text mode with its name otherwise; a folder is always
\* described in text mode with its base name; a name and any other spelling
\* of it in a different letter case select the same mode.
ClaimSuffixes == { <<"p", "n", "g">>, <<"j", "p", "g">>,
                   <<"j", "p", "e", "g">>, <<"g", "i", "f">> }

ClaimFold == [c \in NameChars |->
               IF c = "G" THEN "g" ELSE IF c = "I" THEN "i" ELSE c]

ClaimLowered(nm) == [k \in 1..Len(nm) |-> ClaimFold[nm[k]]]

ClaimRaise == [c \in NameChars |->
                IF c = "g" THEN "G" ELSE IF c = "i" THEN "I" ELSE c]

\* the spellings of a name in every mix of letter cases
ClaimSpellings(nm) ==
  { [k \in 1..Len(nm) |->
       IF k \in up THEN ClaimRaise[nm[k]] ELSE ClaimFold[nm[k]]] :
    up \in SUBSET (1..Len(nm)) }

ClaimImageName(nm) ==
  \E k \in 1..Len(nm) : SubSeq(ClaimLowered(nm), k, Len(nm)) \in ClaimSuffixes

C6_ModeFromKindAndLoweredName ==
  cReq # NoCall =>
    LET c == cReq.call
        nm == cEntry.name
        full == Append(cEntry.folder, nm)
        image == ~cEntry.isdir /\ ClaimImageName(nm)
    IN /\ c.path = full
       /\ c.text = Arg(nm)
       /\ ArgTruthy(c.image_path) <=> image
       /\ image => c.image_path = Arg(full)
       /\ ~image => c.image_path = NoArg
       /\ ~cEntry.isdir =>
            \A other \in ClaimSpellings(nm) :
              ArgTruthy(FileRequest(cEntry.folder, other).image_path)
                <=> ArgTruthy(c.image_path)

\* a folder named .GIf and a file named .GIf
C6_WitnessFolder ==
  /\ cReq # NoCall
  /\ cEntry.name = << ".", "G", "I", "f" >>
  /\ cEntry.isdir
  /\ cReq.call.image_path = NoArg

C6_Witness ==
  /\ cReq # NoCall
  /\ cEntry.name = << ".", "G", "I", "f" >>
  /\ ~cEntry.isdir
  /\ cReq.call.image_path = Arg(<< RootName, << ".", "G", "I", "f" >> >>)

\* C7: when the root path does not exist main prints its message, makes no
\* describe_with_curl call and no POST, lists nothing, writes no output file
\* and ends.
C7_MissingRootDoesNothing ==
  rootKind = "missing" =>
    /\ pc \in {"start", "done"}
    /\ pc = "done" => out = << "The specified folder does not exist." >>
    /\ calls = <<>>
    /\ fsSeen = {}
    /\ stack = <<>>
    /\ tree.type = "none"
    /\ ~outputFile.written

C7_Witness ==
  /\ rootKind = "missing"
  /\ pc = "done"
  /\ Len(out) = 1

\* C8: whenever the POST completes with status 200 the call returns the
\* top-level `content` of the body, or "No description available" when that
\* field is absent; an "Error: ..." or "Error making the request: ..."
\* string is returned only for a non-200 status or a failed transport call.
C8_Status200ReturnsContent ==
  (Returned /\ Res.posts # <<>>) =>
    /\ (dEnv.outcome.transport /\ dEnv.outcome.status = 200) =>
         Res.value = (IF "content" \in dEnv.outcome.body.keys
                      THEN << dEnv.outcome.body.content >>
                      ELSE NoDescription)
    /\ Res.value[1] \in {"Error: ", "Error making the request: "} =>
         (~dEnv.outcome.transport \/ dEnv.outcome.status # 200)

\* C9: a call issues at most one POST; in image mode it issues none and
\* returns "Error encoding the image for description." exactly when the
\* image file cannot be read, and for every readable file, whatever its
\* length, exactly one POST carrying the file's base64 text under `images`.
C9_OnePostPerReadableImage ==
  Returned =>
    /\ Len(Res.posts) <= 1
    /\ ArgTruthy(dIn.image_path) =>
         /\ (Res.posts = <<>> /\ Res.value = ErrEncoding)
              <=> ~dEnv.file.readable
         /\ dEnv.file.readable =>
              /\ Len(Res.posts) = 1
              /\ Res.posts[1].images = << B64Encode(dEnv.file.bytes) >>

\* C10: the describe_with_curl invocations of a scan are the pre-order
\* listing of the scanned tree, one per node: a folder's own call has
\* returned before the folder is listed, a subfolder's whole subtree comes
\* before the next sibling, and at most one call is outstanding.
C10_CallsArePreOrder ==
  /\ IsPrefix(CallPaths, PreOrder(RootPath))
  /\ tree.type # "none" => CallPaths = PreOrder(RootPath)
  /\ \A i \in DOMAIN calls : ~calls[i].done => i = Len(calls)
  /\ \A r \in fsSeen :
       \E i \in DOMAIN calls : calls[i].path = r.path /\ calls[i].done
  /\ \A i, j \in DOMAIN calls : calls[i].path = calls[j].path => i = j

C10_Witness ==
  /\ pc = "done"
  /\ Len(calls) = 4
  /\ Len(calls[2].path) = 2
  /\ Len(calls[3].path) = 3
  /\ Len(calls[4].path) = 2
  /\ \A i \in DOMAIN calls : calls[i].done

====
